---- MODULE Spec2Model ----
(***************************************************************************)
(* Model of src/worker/worker.ts: the worker bootstrap (the `init`         *)
(* message handler), the VSCodeReporter adapter and the deferred delivery  *)
(* of `finished` events through process.nextTick.                          *)
(*                                                                         *)
(* Strings of the program are TLA+ strings; '' is "".  A target identity   *)
(* is a path; pathe's dirname is tabulated over the identities of the      *)
(* model.  The test engine (createVitest) is an external collaborator: it  *)
(* resolves or rejects, and from the moment it has been handed a reporter  *)
(* it may call the reporter's callbacks in synchronous runs of its own.    *)
(***************************************************************************)
EXTENDS Naturals, Sequences, FiniteSets, TLC

\* ---------------------------------------------------------------- bounds
MaxTargets == 2     \* longest data.meta of an init message
MaxCalls == 2       \* reporter callbacks the engines make in one behaviour
MaxMsgs == 2        \* init messages the host sends

\* ---------------------------------------------------------------- values
Identities == {"/a/v", "/b/v", "/gone/v"}
OriginalCwd == "/home"
ExistingDirs == {"/home", "/a", "/b"}
Unset == "undefined"

\* dirname(meta.id), worker.ts:141 and :91
Dirname(id) ==
    CASE id = "/a/v" -> "/a"
      [] id = "/b/v" -> "/b"
      [] id = "/gone/v" -> "/gone"
      [] OTHER -> "."

\* process.chdir throws when the directory does not exist
ChdirThrows(dir) == dir \notin ExistingDirs

\* the payloads a host can put in an init message
RECURSIVE SeqsUpTo(_, _)
SeqsUpTo(S, n) ==
    IF n = 0 THEN {<<>>}
    ELSE LET shorter == SeqsUpTo(S, n - 1)
         IN  shorter \cup {Append(s, x) : s \in {t \in shorter : Len(t) = n - 1}, x \in S}

\* target identities are unique within one init message
Unique(s) == \A i, j \in DOMAIN s : s[i] = s[j] => i = j
Payloads == [meta : {s \in SeqsUpTo(Identities, MaxTargets) : Unique(s)},
             loader : BOOLEAN]
NoData == [meta |-> <<>>]

\* the reporter callbacks of VSCodeReporter
ImmediateCallbacks == {"onUserConsoleLog", "onTaskUpdate", "onCollected",
                       "onWatcherStart", "onWatcherRerun"}
Callbacks == ImmediateCallbacks \cup {"onFinished"}
\* values of ctx.configOverride.testNamePattern: the source of a RegExp
Patterns == {"$a", "a"}
Targets == 1..MaxTargets

VARIABLES
    handlerRegistered,  \* process.on('message', init) is in force
    received,           \* init messages delivered so far
    initRuns,           \* times the body of `if (message.type === 'init')` was entered
    data,               \* what init reads of its message after the first await: data.meta
    pc,                 \* where the async init function is
    idx,                \* position in data.meta of the target being constructed
    errors,             \* local `errors` of init
    vitest,             \* local `vitest` of init: the targets constructed
    procCwd,            \* process.cwd()
    cwdAtInit,          \* process.cwd() when init processing began (history)
    attempts,           \* per target, times initVitest(meta) was called (history)
    chdirFailedAt,      \* target whose process.chdir threw, 0 if none (history)
    engine,             \* per target, state of its engine
    rep,                \* per target, the fields of its VSCodeReporter
    rpcCount,           \* times createWorkerRPC was called
    initRpcCalls,       \* per target, times reporter.initRpc was called
    vitestById,         \* the lookup table given to createWorkerRPC
    sent,               \* messages given to process.send, in order
    calls,              \* reporter callbacks made so far
    callLog,            \* one record per reporter callback, in call order (history):
                        \* wired = this.rpc was set when the rpc call was evaluated,
                        \* pattern = the engine's name filter when the callback was called
    ticks,              \* closures queued with nextTick, in order
    inRun,              \* target whose engine is running synchronously, 0 if none
    runs,               \* synchronous engine runs begun so far
    crashed,            \* an exception reached the event loop uncaught
    pattern             \* per target, ctx.configOverride.testNamePattern

\* one reporter taken alone, for what its methods do to their arguments
VARIABLES
    tuPacks,            \* the batch handed to onTaskUpdate, as it is now
    tuPacks0,           \* the batch as the engine built it (history)
    tuBroken,           \* projects whose source-map accessor throws
    tuCalls,            \* times onTaskUpdate was called with the batch
    tuSent,             \* events the calls posted, in order
    sfHeap,             \* the engine's configuration objects: their setupFiles
    sfHeap0,            \* the configuration objects as the engine built them (history)
    sfProjects,         \* ctx.projects: the configuration object of each project
    sfRep,              \* the fields of the reporter initVitest is called on
    sfCalls             \* times reporter.initVitest was called on the engine

vars == <<handlerRegistered, received, initRuns, data, pc, idx, errors, vitest,
          procCwd, cwdAtInit, attempts, chdirFailedAt, engine, rep, rpcCount,
          initRpcCalls, vitestById, sent, calls, callLog, ticks, inRun, runs, crashed,
          pattern, tuPacks, tuPacks0, tuBroken, tuCalls, tuSent,
          sfHeap, sfHeap0, sfProjects, sfRep, sfCalls>>

taskVars == <<tuPacks, tuPacks0, tuBroken, tuCalls, tuSent>>
setupVars == <<sfHeap, sfHeap0, sfProjects, sfRep, sfCalls>>
auxVars == <<taskVars, setupVars>>
workerVars == <<handlerRegistered, received, initRuns, data, pc, idx, errors, vitest,
                procCwd, cwdAtInit, attempts, chdirFailedAt, engine, rep, rpcCount,
                initRpcCalls, vitestById, sent, calls, callLog, ticks, inRun, runs,
                crashed, pattern>>

bootVars == <<data, pc, idx, errors, vitest, procCwd, attempts, chdirFailedAt,
              engine, rep, rpcCount, initRpcCalls, vitestById, sent>>
callVars == <<calls, callLog, ticks, inRun, runs, crashed, pattern>>

NewReporter == [ctx |-> 0, id |-> Unset, rpc |-> 0]

InitWorker ==
    /\ handlerRegistered = TRUE
    /\ received = 0
    /\ initRuns = 0
    /\ data = NoData
    /\ pc = "idle"
    /\ idx = 0
    /\ errors = <<>>
    /\ vitest = <<>>
    /\ procCwd = OriginalCwd
    /\ cwdAtInit = OriginalCwd
    /\ attempts = [t \in Targets |-> 0]
    /\ chdirFailedAt = 0
    /\ engine = [t \in Targets |-> "none"]
    /\ rep = [t \in Targets |-> NewReporter]
    /\ rpcCount = 0
    /\ initRpcCalls = [t \in Targets |-> 0]
    /\ vitestById = <<>>
    /\ sent = <<>>
    /\ calls = 0
    /\ callLog = <<>>
    /\ ticks = <<>>
    /\ inRun = 0
    /\ runs = 0
    /\ crashed = FALSE
    /\ pattern = [t \in Targets |-> Unset]

\* no batch is under way
NoTaskUpdate ==
    /\ tuPacks = <<>>
    /\ tuPacks0 = <<>>
    /\ tuBroken = {}
    /\ tuCalls = 0
    /\ tuSent = <<>>

\* configuration objects of one engine: ctx.config and those of ctx.projects
MaxProjects == 2
ConfigIds == 1..MaxProjects + 1
MissingList == [has |-> FALSE, setupFiles |-> <<>>]

\* no engine's configuration is looked at
NoSetup ==
    /\ sfHeap = [c \in ConfigIds |-> MissingList]
    /\ sfHeap0 = sfHeap
    /\ sfProjects = <<>>
    /\ sfRep = NewReporter
    /\ sfCalls = 0

Init == InitWorker /\ NoTaskUpdate /\ NoSetup

\* ------------------------------------------------------- the source's pieces
\* const cwd = process.cwd(), evaluated when the module is loaded
cwd == OriginalCwd

\* mutant: the handler forgets to unregister itself
InitHandlerAfterOff_Kept == TRUE

\* process.off('message', init): whether init is still registered afterwards
InitHandlerAfterOff == FALSE

\* mutant: the catch swallows the failure
PushError_Dropped(errs, id, stack) == errs

\* errors.push([meta.id, err.stack])
PushError(errs, id, stack) == Append(errs, <<id, stack>>)

\* mutant: the first failure ends the loop
AfterFailure_Abort(i, n) == n + 1

\* the catch of worker.ts:145-147 falls through to the next iteration: the
\* position handled after target i of n failed
AfterFailure(i, n) == i + 1

\* vitest.push(await initVitest(meta)): the {vitest, reporter, meta} record,
\* engine and reporter both named by the target's position
PushVitest(vits, id, t) == Append(vits, [id |-> id, v |-> t])

\* mutant: the loop changes to the saved directory, not the target's
LoopDir_Saved(id) == cwd

\* process.chdir(dirname(meta.id)) in the loop: the directory asked for
LoopDir(id) == Dirname(id)

\* mutant: the directory is not changed back
DirAfterLoop_Stay(current) == current

\* process.chdir(cwd) after the loop: the directory the process is then in
DirAfterLoop(current) == cwd

\* mutant: the identity is not stored
ReporterInitVitest_NoId(r, ctx, id) == [r EXCEPT !.ctx = ctx]

\* VSCodeReporter.initVitest: this.ctx = ctx; this.id = id
ReporterInitVitest(r, ctx, id) == [r EXCEPT !.ctx = ctx, !.id = id]

\* VSCodeReporter.initRpc: this.rpc = rpc
ReporterInitRpc(r, rpc) == [r EXCEPT !.rpc = rpc]

\* mutant: the emptiness test is missing
HandshakeType_AlwaysReady(vits) == "ready"

\* if (!vitest.length) ... 'error' ... else ... 'ready'
HandshakeType(vits) == IF Len(vits) = 0 THEN "error" ELSE "ready"

\* mutant: the '' identity is left out
TopLevelMessage_NoIdentity(stack) == [type |-> "error", errors |-> <<stack>>]

\* error(err): the message the top-level catch sends
TopLevelMessage(stack) == [type |-> "error", errors |-> <<"", stack>>]

\* mutant: the table maps an identity to its position in `vitest`
FromEntries_Position(vits) ==
    [id \in {vits[k].id : k \in DOMAIN vits} |->
        CHOOSE k \in DOMAIN vits : vits[k].id = id]

\* Object.fromEntries(vitest.map(v => [v.meta.id, v.vitest])): a later entry
\* with the same key replaces an earlier one
FromEntries(vits) ==
    [id \in {vits[k].id : k \in DOMAIN vits} |->
        LET ks == {k \in DOMAIN vits : vits[k].id = id}
            last == CHOOSE k \in ks : \A j \in ks : j <= k
        IN  vits[last].v]

\* createWorkerRPC(vitestById, channel): the channel it returns
createWorkerRPC(count) == count + 1

Constructed(vits) == {vits[k].v : k \in DOMAIN vits}

\* ------------------------------------------------------------ the bootstrap
\* catch (err) { error(err) } at the outermost boundary
TopLevelError(stack, errs, vits, eng, rp) ==
    /\ sent' = Append(sent, TopLevelMessage(stack))
    /\ pc' = "topError"
    /\ errors' = errs
    /\ vitest' = vits
    /\ engine' = eng
    /\ rep' = rp
    /\ UNCHANGED <<procCwd, attempts, rpcCount, initRpcCalls, vitestById>>

\* worker.ts:149-168, everything after the loop
AfterLoop(errs, vits, eng, rp, rpcThrows) ==
    /\ idx' = idx
    /\ chdirFailedAt' = chdirFailedAt
    /\ IF ChdirThrows(DirAfterLoop(procCwd))
       THEN TopLevelError("chdirStack", errs, vits, eng, rp)
       ELSE /\ procCwd' = DirAfterLoop(procCwd)
            /\ errors' = errs
            /\ vitest' = vits
            /\ engine' = eng
            /\ attempts' = attempts
            /\ IF HandshakeType(vits) = "error"
               THEN /\ sent' = Append(sent, [type |-> "error", errors |-> errs])
                    /\ pc' = "totalFail"
                    /\ rep' = rp
                    /\ UNCHANGED <<rpcCount, initRpcCalls, vitestById>>
               ELSE IF rpcThrows
               THEN /\ sent' = Append(sent, TopLevelMessage("rpcStack"))
                    /\ pc' = "topError"
                    /\ rep' = rp
                    /\ UNCHANGED <<rpcCount, initRpcCalls, vitestById>>
               ELSE /\ rpcCount' = rpcCount + 1
                    /\ vitestById' = FromEntries(vits)
                    /\ rep' = [t \in Targets |->
                                 IF t \in Constructed(vits)
                                 THEN ReporterInitRpc(rp[t], createWorkerRPC(rpcCount))
                                 ELSE rp[t]]
                    /\ initRpcCalls' = [t \in Targets |->
                                 IF t \in Constructed(vits)
                                 THEN initRpcCalls[t] + 1 ELSE initRpcCalls[t]]
                    /\ sent' = Append(sent, [type |-> "ready", errors |-> errs])
                    /\ pc' = "ready"

\* worker.ts:140-143 for target i, or what follows the loop when i is past
\* the end: runs until the next await (the import in initVitest) or the end
Continue(meta, i, errs, vits, eng, rp, rpcThrows) ==
    IF i <= Len(meta)
    THEN IF ChdirThrows(LoopDir(meta[i]))
         THEN /\ TopLevelError("chdirStack", errs, vits, eng, rp)
              /\ idx' = i
              /\ chdirFailedAt' = i
         ELSE /\ procCwd' = LoopDir(meta[i])
              /\ idx' = i
              /\ attempts' = [attempts EXCEPT ![i] = @ + 1]
              /\ pc' = "import"
              /\ errors' = errs
              /\ vitest' = vits
              /\ engine' = eng
              /\ rep' = rp
              /\ UNCHANGED <<chdirFailedAt, rpcCount, initRpcCalls, vitestById, sent>>
    ELSE AfterLoop(errs, vits, eng, rp, rpcThrows)

\* the 'message' event: process.on('message', async function init(message))
ReceiveMessage(type, d, loaderThrows, rpcThrows) ==
    /\ ~crashed
    /\ inRun = 0
    /\ type = "init" => received < MaxMsgs
    /\ received' = IF type = "init" THEN received + 1 ELSE received
    /\ UNCHANGED <<callVars, auxVars>>
    /\ IF handlerRegistered /\ type = "init"
       THEN /\ handlerRegistered' = InitHandlerAfterOff
            /\ initRuns' = initRuns + 1
            /\ data' = [meta |-> d.meta]
            /\ cwdAtInit' = procCwd
            /\ IF d.loader /\ loaderThrows
               THEN /\ TopLevelError("loaderStack", <<>>, <<>>, engine, rep)
                    /\ UNCHANGED <<idx, chdirFailedAt>>
               ELSE Continue(d.meta, 1, <<>>, <<>>, engine, rep, rpcThrows)
       ELSE UNCHANGED <<handlerRegistered, initRuns, cwdAtInit, bootVars>>

\* await import(meta.vitestNodePath) settles; on success the reporter is
\* created and handed to createVitest (worker.ts:82-84)
ImportSettles(ok, rpcThrows) ==
    /\ ~crashed
    /\ inRun = 0
    /\ pc = "import"
    /\ UNCHANGED <<handlerRegistered, received, initRuns, cwdAtInit, data, callVars, auxVars>>
    /\ IF ok
       THEN /\ engine' = [engine EXCEPT ![idx] = "constructing"]
            /\ rep' = [rep EXCEPT ![idx] = NewReporter]
            /\ pc' = "create"
            /\ UNCHANGED <<idx, errors, vitest, procCwd, attempts, chdirFailedAt,
                           rpcCount, initRpcCalls, vitestById, sent>>
       ELSE Continue(data.meta, AfterFailure(idx, Len(data.meta)),
                     PushError(errors, data.meta[idx], "importStack"), vitest,
                     [engine EXCEPT ![idx] = "failed"], rep, rpcThrows)

\* await vitestMode.createVitest(...) settles (worker.ts:84-124, 143-147);
\* reporter.initVitest, the return to init and the start of the next
\* iteration follow without another job of the event loop changing the state
CreateSettles(ok, rpcThrows) ==
    /\ ~crashed
    /\ inRun = 0
    /\ pc = "create"
    /\ UNCHANGED <<handlerRegistered, received, initRuns, cwdAtInit, data, callVars, auxVars>>
    /\ IF ok
       THEN Continue(data.meta, idx + 1, errors,
                     PushVitest(vitest, data.meta[idx], idx),
                     [engine EXCEPT ![idx] = "live"],
                     [rep EXCEPT ![idx] = ReporterInitVitest(@, idx, data.meta[idx])],
                     rpcThrows)
       ELSE Continue(data.meta, AfterFailure(idx, Len(data.meta)),
                     PushError(errors, data.meta[idx], "createStack"), vitest,
                     [engine EXCEPT ![idx] = "failed"], rep, rpcThrows)

\* ------------------------------------------------------------- the reporter
\* RegExp.prototype.toString for a pattern without flags
RegExpToString(source) == "/" \o source \o "/"

\* get isCollecting(), for a reporter whose ctx is set
isCollecting(t) ==
    /\ pattern[t] # Unset
    /\ RegExpToString(pattern[t]) = "/$a/"

\* the method of the rpc object each callback calls
RpcMethod(callback) ==
    CASE callback = "onUserConsoleLog" -> "onConsoleLog"
      [] callback = "onTaskUpdate" -> "onTaskUpdate"
      [] callback = "onFinished" -> "onFinished"
      [] callback = "onCollected" -> "onCollected"
      [] callback = "onWatcherStart" -> "onWatcherStart"
      [] callback = "onWatcherRerun" -> "onWatcherRerun"

\* mutant: onCollected is deferred like onFinished
Deferred_Collected(callback) == callback \in {"onFinished", "onCollected"}

\* whether the callback hands its rpc call to nextTick
Deferred(callback) == callback = "onFinished"

\* the message a call of an rpc method posts; `payload` stands for the
\* callback's own arguments (log, packs, files, errors, trigger)
RpcEvent(callback, id, payload, collecting) ==
    IF callback \in {"onUserConsoleLog", "onTaskUpdate"}
    THEN [type |-> "rpc", name |-> RpcMethod(callback), id |-> id, payload |-> payload]
    ELSE [type |-> "rpc", name |-> RpcMethod(callback), id |-> id, payload |-> payload,
          collecting |-> collecting]

\* post(message) { process.send!(message) }
Post(log, message) == Append(log, message)

\* mutant: the closure runs before those already queued
nextTick_Front(queue, closure) == <<closure>> \o queue

\* process.nextTick(closure): the closure joins the end of the tick queue
nextTick(queue, closure) == Append(queue, closure)

\* what a callback does up to its rpc call: "noctx" when it dereferences an
\* unset this.ctx first, "unwired" when it dereferences an unset this.rpc,
\* "pending" when it queues the call, "posted" when the event is sent
Outcome(r, callback, nonEmpty) ==
    CASE callback = "onUserConsoleLog" ->
            IF r.rpc = 0 THEN "unwired" ELSE "posted"
      [] callback = "onTaskUpdate" ->
            IF nonEmpty /\ r.ctx = 0 THEN "noctx"
            ELSE IF r.rpc = 0 THEN "unwired" ELSE "posted"
      [] callback = "onFinished" ->
            IF r.ctx = 0 THEN "noctx"
            ELSE IF Deferred(callback) THEN "pending"
            ELSE IF r.rpc = 0 THEN "unwired" ELSE "posted"
      [] OTHER ->
            IF Deferred(callback) THEN "pending"
            ELSE IF r.rpc = 0 THEN "unwired"
            ELSE IF r.ctx = 0 THEN "noctx" ELSE "posted"

\* the engine of target t calls a reporter callback, in the synchronous run
\* it is in or in a new one
Callback(t, callback, nonEmpty) ==
    /\ ~crashed
    /\ calls < MaxCalls
    /\ inRun \in {0, t}
    /\ engine[t] \in {"constructing", "live"}
    /\ LET n == calls + 1
           out == Outcome(rep[t], callback, nonEmpty)
           run == IF inRun = 0 THEN runs + 1 ELSE runs
       IN  /\ calls' = n
           /\ runs' = run
           /\ inRun' = t
           /\ callLog' = Append(callLog, [t |-> t, callback |-> callback, run |-> run,
                                          wired |-> rep[t].rpc # 0, fwd |-> out,
                                          pattern |-> pattern[t]])
           /\ sent' = IF out = "posted"
                      THEN Post(sent, RpcEvent(callback, rep[t].id, n, isCollecting(t)))
                      ELSE sent
           /\ ticks' = IF out = "pending"
                       THEN nextTick(ticks, [t |-> t, call |-> n, callback |-> callback,
                                             collecting |-> isCollecting(t)])
                       ELSE ticks
    /\ UNCHANGED <<handlerRegistered, received, initRuns, cwdAtInit, data, pc, idx,
                   errors, vitest, procCwd, attempts, chdirFailedAt, engine, rep,
                   rpcCount, initRpcCalls, vitestById, crashed, pattern, auxVars>>

\* the engine's synchronous run returns to the event loop
Return ==
    /\ ~crashed
    /\ inRun # 0
    /\ inRun' = 0
    /\ UNCHANGED <<handlerRegistered, received, initRuns, cwdAtInit, bootVars,
                   calls, callLog, ticks, runs, crashed, pattern, auxVars>>

\* mutant: the flag is read when the closure runs
ClosureCollecting_AtDelivery(k) == isCollecting(k.t)

\* the `collecting` the closure of onFinished captured (worker.ts:62, 64)
ClosureCollecting(k) == k.collecting

\* the closure onFinished gave to nextTick runs: this.rpc.onFinished(...);
\* a TypeError it throws is uncaught and ends the process
Tick ==
    /\ ~crashed
    /\ inRun = 0
    /\ ticks # <<>>
    /\ LET k == Head(ticks)
       IN  /\ ticks' = Tail(ticks)
           /\ IF rep[k.t].rpc = 0
              THEN /\ crashed' = TRUE
                   /\ callLog' = [callLog EXCEPT ![k.call].fwd = "unwired",
                                                 ![k.call].wired = FALSE]
                   /\ sent' = sent
              ELSE /\ crashed' = FALSE
                   /\ callLog' = [callLog EXCEPT ![k.call].fwd = "posted",
                                                 ![k.call].wired = TRUE]
                   /\ sent' = Post(sent, RpcEvent(k.callback, rep[k.t].id,
                                                  k.call, ClosureCollecting(k)))
    /\ UNCHANGED <<handlerRegistered, received, initRuns, cwdAtInit, data, pc, idx,
                   errors, vitest, procCwd, attempts, chdirFailedAt, engine, rep,
                   rpcCount, initRpcCalls, vitestById, calls, inRun, runs, pattern,
                   auxVars>>

\* the engine of target t changes its name filter; Spec leaves the filter as
\* constructed, a specification about the collecting flag adds this action
SetPattern(t, p) ==
    /\ ~crashed
    /\ inRun \in {0, t}
    /\ engine[t] = "live"
    /\ pattern[t] # p
    /\ pattern' = [pattern EXCEPT ![t] = p]
    /\ UNCHANGED <<handlerRegistered, received, initRuns, cwdAtInit, bootVars,
                   calls, callLog, ticks, inRun, runs, crashed, auxVars>>

Next ==
    \/ \E type \in {"init", "other"} :
           IF handlerRegistered /\ type = "init"
           THEN \E d \in Payloads, lt \in BOOLEAN, rt \in BOOLEAN :
                    ReceiveMessage(type, d, lt, rt)
           ELSE ReceiveMessage(type, [meta |-> <<>>, loader |-> FALSE], FALSE, FALSE)
    \/ \E ok \in BOOLEAN, rt \in BOOLEAN : ImportSettles(ok, rt)
    \/ \E ok \in BOOLEAN, rt \in BOOLEAN : CreateSettles(ok, rt)
    \/ \E t \in Targets, c \in Callbacks, ne \in BOOLEAN : Callback(t, c, ne)
    \/ Return
    \/ Tick

Spec == Init /\ [][Next]_vars

\* the callbacks whose rpc call has a `collecting` argument
CollectingCallbacks == {"onFinished", "onCollected", "onWatcherStart", "onWatcherRerun"}

\* the payloads all of whose target directories exist
ReachablePayloads == {d \in Payloads : \A i \in DOMAIN d.meta : ~ChdirThrows(Dirname(d.meta[i]))}

\* the worker with engines that change their name filter between their runs,
\* for the callbacks that report the collecting flag: one init message, whose
\* loader registers, whose directories exist and whose channel is constructed
NextCollecting ==
    \/ /\ handlerRegistered
       /\ \E d \in ReachablePayloads : ReceiveMessage("init", d, FALSE, FALSE)
    \/ \E ok \in BOOLEAN : ImportSettles(ok, FALSE)
    \/ \E ok \in BOOLEAN : CreateSettles(ok, FALSE)
    \/ \E t \in Targets, c \in CollectingCallbacks : Callback(t, c, FALSE)
    \/ Return
    \/ Tick
    \/ \E t \in Targets, p \in Patterns \cup {Unset} : inRun = 0 /\ SetPattern(t, p)

SpecCollecting == Init /\ [][NextCollecting]_vars

\* the worker whose engines report finished runs and console output, with a
\* scheduler that runs the pending next-tick closures and engine runs that
\* return
NextFinished ==
    \/ /\ handlerRegistered
       /\ \E d \in Payloads, lt \in BOOLEAN, rt \in BOOLEAN :
              ReceiveMessage("init", d, lt, rt)
    \/ \E ok \in BOOLEAN, rt \in BOOLEAN : ImportSettles(ok, rt)
    \/ \E ok \in BOOLEAN, rt \in BOOLEAN : CreateSettles(ok, rt)
    \/ \E t \in Targets, c \in {"onFinished", "onUserConsoleLog"} : Callback(t, c, FALSE)
    \/ Return
    \/ Tick

SpecFinished ==
    Init /\ [][NextFinished]_vars /\ WF_vars(Tick) /\ WF_vars(Return)

\* ------------------------------------------------- onTaskUpdate on its batch
MaxPacks == 2
MaxErrors == 1

TaskIds == {"t1", "t2"}
Projects == {"p1", "p2"}

\* this.ctx.getProjectByTaskId(taskId): the engine's project of the task
getProjectByTaskId(taskId) == IF taskId = "t1" THEN "p1" ELSE "p2"

\* the members of result.errors: error objects, whose stacks is unset or
\* holds an earlier trace, and values that are no objects
ErrorValues ==
    [kind : {"object"}, stack : {"s1"}, stacks : {Unset, "stale"}]
        \cup [kind : {"string", "null"}, stack : {""}, stacks : {Unset}]

\* result of a pack: undefined, without errors, or with a list of errors
ResultValues ==
    {[defined |-> FALSE, hasErrors |-> FALSE, errors |-> <<>>],
     [defined |-> TRUE, hasErrors |-> FALSE, errors |-> <<>>]}
        \cup [defined : {TRUE}, hasErrors : {TRUE}, errors : SeqsUpTo(ErrorValues, MaxErrors)]

\* TaskResultPack[]: [taskId, result] pairs
PackValues == [taskId : TaskIds, result : ResultValues]
Batches == SeqsUpTo(PackValues, MaxPacks)

\* typeof error === 'object' && error
IsErrorObject(error) ==
    /\ (IF error.kind \in {"object", "null"} THEN "object" ELSE error.kind) = "object"
    /\ error.kind # "null"

\* parseErrorStacktrace(error, {getSourceMap: file =>
\* project.getBrowserSourceMapModuleById(file)}): the frames of the error's
\* stack mapped through the project's source maps
parseErrorStacktrace(error, project) == project \o ":" \o error.stack

\* mutant: every trace is resolved through the first project
PackProject_Root(pack) == "p1"

\* const project = this.ctx.getProjectByTaskId(taskId)
PackProject(pack) == getProjectByTaskId(pack.taskId)

\* the body of result?.errors?.forEach for one error
EnrichError(error, project) ==
    IF IsErrorObject(error)
    THEN [error EXCEPT !.stacks = parseErrorStacktrace(error, project)]
    ELSE error

\* the places <<pack, error>> of the batch where the resolution throws
FailPositions(batch, broken) ==
    {q \in {<<i, j>> : i \in DOMAIN batch, j \in 1..MaxErrors + 1} :
        /\ batch[q[1]].result.defined /\ batch[q[1]].result.hasErrors
        /\ q[2] \in DOMAIN batch[q[1]].result.errors
        /\ IsErrorObject(batch[q[1]].result.errors[q[2]])
        /\ PackProject(batch[q[1]]) \in broken}

\* place a is visited before place b by the two nested forEach
Before(a, b) == a[1] < b[1] \/ (a[1] = b[1] /\ a[2] < b[2])

\* packs.forEach(...): the batch after the loops, which stop at the first
\* place whose resolution throws
ForEachPack(batch, broken) ==
    LET fails == FailPositions(batch, broken)
        visited(i, j) == \A f \in fails : Before(<<i, j>>, f)
    IN  [i \in DOMAIN batch |->
            IF batch[i].result.defined /\ batch[i].result.hasErrors
            THEN [batch[i] EXCEPT !.result.errors =
                     [j \in DOMAIN @ |->
                         IF visited(i, j)
                         THEN EnrichError(@[j], PackProject(batch[i]))
                         ELSE @[j]]]
            ELSE batch[i]]

\* the reporter after initVitest and initRpc
WiredReporter == [ctx |-> 1, id |-> "/a/v", rpc |-> 1]

\* onTaskUpdate(packs) of a wired reporter, on the batch as the call before
\* left it
OnTaskUpdate ==
    /\ tuCalls < MaxCalls
    /\ tuCalls' = tuCalls + 1
    /\ tuPacks' = ForEachPack(tuPacks, tuBroken)
    /\ tuSent' = IF FailPositions(tuPacks, tuBroken) = {}
                    /\ Outcome(WiredReporter, "onTaskUpdate", tuPacks # <<>>) = "posted"
                 THEN Post(tuSent, RpcEvent("onTaskUpdate", WiredReporter.id,
                                            tuPacks', FALSE))
                 ELSE tuSent
    /\ UNCHANGED <<workerVars, setupVars, tuPacks0, tuBroken>>

InitTaskUpdate ==
    /\ InitWorker
    /\ tuPacks \in Batches
    /\ tuPacks0 = tuPacks
    /\ tuBroken \in SUBSET Projects
    /\ tuCalls = 0
    /\ tuSent = <<>>
    /\ NoSetup

NextTaskUpdate == OnTaskUpdate

SpecTaskUpdate == InitTaskUpdate /\ [][NextTaskUpdate]_vars

\* ---------------------------------------- initVitest on the configuration
\* setupFilePath of ../constants
setupFilePath == "setup.ts"

\* ctx.config is the first configuration object
RootConfig == 1

\* config.setupFiles as the engine resolved it: missing, or a list that may
\* already name the setup file
ConfigValues ==
    {MissingList} \cup
        [has : {TRUE},
         setupFiles : {<<>>, <<"user.ts">>, <<setupFilePath>>, <<"user.ts", setupFilePath>>}]

\* mutant: the path is appended only to a list that does not hold it
AppendSetupFile_Dedup(config) ==
    LET old == IF config.has THEN config.setupFiles ELSE <<>>
    IN  [has |-> TRUE,
         setupFiles |-> IF \E i \in DOMAIN old : old[i] = setupFilePath
                        THEN old ELSE Append(old, setupFilePath)]

\* config.setupFiles = [...config.setupFiles || [], setupFilePath]
AppendSetupFile(config) ==
    LET old == IF config.has THEN config.setupFiles ELSE <<>>
    IN  [has |-> TRUE, setupFiles |-> Append(old, setupFilePath)]

\* ctx.projects.forEach(project => project.config.setupFiles = ...), on the
\* objects the projects refer to
RECURSIVE ForEachProject(_, _)
ForEachProject(heap, refs) ==
    IF refs = <<>> THEN heap
    ELSE ForEachProject([heap EXCEPT ![Head(refs)] = AppendSetupFile(@)], Tail(refs))

\* what initVitest does to the configuration objects
InjectSetupFiles(heap, refs) ==
    ForEachProject([heap EXCEPT ![RootConfig] = AppendSetupFile(@)], refs)

\* reporter.initVitest(ctx, id)
InitVitestCall ==
    /\ sfCalls < MaxCalls
    /\ sfCalls' = sfCalls + 1
    /\ sfRep' = ReporterInitVitest(sfRep, 1, "/a/v")
    /\ sfHeap' = InjectSetupFiles(sfHeap, sfProjects)
    /\ UNCHANGED <<workerVars, taskVars, sfHeap0, sfProjects>>

InitSetup ==
    /\ InitWorker
    /\ NoTaskUpdate
    /\ sfHeap \in [ConfigIds -> ConfigValues]
    /\ sfHeap0 = sfHeap
    /\ sfProjects \in SeqsUpTo(ConfigIds, MaxProjects)
    /\ sfRep = NewReporter
    /\ sfCalls = 0

NextSetup == InitVitestCall

SpecSetup == InitSetup /\ [][NextSetup]_vars

\* ================================================================= claims
N == Len(data.meta)
FailedTargets == {t \in 1..N : engine[t] = "failed"}
LiveTargets == {t \in 1..N : engine[t] = "live"}
Handshakes(type) == {i \in DOMAIN sent : sent[i].type = type}
\* init processing went through worker.ts:151-168 without an exception
Decided == pc \in {"ready", "totalFail"}
Finished == pc \in {"ready", "totalFail", "topError"}
\* loop iterations begun for target t (process.chdir called for it)
Handled(t) == attempts[t] + (IF chdirFailedAt = t THEN 1 ELSE 0)
EntriesFor(errs, t) == {j \in DOMAIN errs : errs[j][1] = data.meta[t]}
\* positions in `sent` of the rpc events that callback number n produced
EventsOf(n) == {i \in DOMAIN sent : sent[i].type = "rpc" /\ sent[i].payload = n}

\* C1: when init processing has decided its handshake for N targets of which
\* k, 0 < k < N, failed construction, exactly one `ready` and no `error`
\* message was sent, and the ready message's error list has k entries: one
\* [identity, stack] for each failed target and none for a constructed one.
C1_PartialSuccess ==
    (Decided /\ 0 < Cardinality(FailedTargets) /\ Cardinality(FailedTargets) < N) =>
        /\ Cardinality(Handshakes("ready")) = 1
        /\ Handshakes("error") = {}
        /\ LET m == sent[CHOOSE i \in Handshakes("ready") : TRUE]
           IN  /\ Len(m.errors) = Cardinality(FailedTargets)
               /\ \A t \in FailedTargets : Cardinality(EntriesFor(m.errors, t)) = 1
               /\ \A t \in LiveTargets : EntriesFor(m.errors, t) = {}
               /\ \A j \in DOMAIN m.errors :
                      /\ Len(m.errors[j]) = 2
                      /\ m.errors[j][2] \in {"importStack", "createStack"}

C1_Witness ==
    /\ pc = "ready"
    /\ N = 2
    /\ Cardinality(FailedTargets) = 1
    /\ Cardinality(LiveTargets) = 1

\* C2: when init processing has decided its handshake and all N targets
\* failed construction, exactly one `error` message with N entries was sent,
\* no `ready`, no engine instance is recorded, createWorkerRPC was not called
\* and no reporter's initRpc was called.
C2_TotalFailure ==
    (Decided /\ Cardinality(FailedTargets) = N) =>
        /\ Cardinality(Handshakes("error")) = 1
        /\ Handshakes("ready") = {}
        /\ Len(sent[CHOOSE i \in Handshakes("error") : TRUE].errors) = N
        /\ vitest = <<>>
        /\ LiveTargets = {}
        /\ rpcCount = 0
        /\ \A t \in Targets : initRpcCalls[t] = 0 /\ rep[t].rpc = 0

C2_Witness ==
    /\ pc = "totalFail"
    /\ N = 2
    /\ Cardinality(FailedTargets) = 2

\* C3: every reporter callback that evaluates its rpc call (this.rpc.onX)
\* finds the shared channel constructed and its own rpc reference set.
C3_ForwardOnlyWhenWired ==
    \A n \in DOMAIN callLog :
        callLog[n].fwd \in {"posted", "unwired"} =>
            /\ callLog[n].wired
            /\ rpcCount >= 1

\* C4: once init processing has sent `ready` or the total-failure `error`,
\* the working directory is the one the process was in when init began.
C4_CwdRestored == Decided => procCwd = cwdAtInit

C4_Witness ==
    /\ Decided
    /\ N >= 1
    /\ \A t \in 1..N : attempts[t] = 1 /\ Dirname(data.meta[t]) # cwdAtInit

\* C5: every rpc event on the channel carries the identity of the target
\* whose engine made the callback that produced it, never another target's
\* and never an unset one.
C5_EventTagging ==
    \A i \in DOMAIN sent :
        sent[i].type = "rpc" =>
            /\ sent[i].payload \in DOMAIN callLog
            /\ sent[i].id = data.meta[callLog[sent[i].payload].t]
            /\ sent[i].id # Unset

C5_Witness ==
    \E i, j \in DOMAIN sent :
        /\ i < j
        /\ sent[i].type = "rpc" /\ sent[j].type = "rpc"
        /\ sent[i].id = "/b/v" /\ sent[j].id = "/a/v"
        /\ callLog[sent[i].payload].t # callLog[sent[j].payload].t

\* C6: when onFinished and then onCollected are called on one adapter in the
\* same synchronous run, the `finished` event of that call is on the channel
\* only after the `collected` event of that call.
C6_CollectedBeforeFinished ==
    \A m, n \in DOMAIN callLog :
        ( /\ m < n
          /\ callLog[m].t = callLog[n].t
          /\ callLog[m].run = callLog[n].run
          /\ callLog[m].callback = "onFinished"
          /\ callLog[n].callback = "onCollected" ) =>
            \A p \in EventsOf(m) : \E q \in EventsOf(n) : q < p

\* C7: bootstrap runs at most once whatever init messages arrive: the init
\* handler is unregistered by the first one, no target is constructed twice,
\* at most one channel is created and at most one handshake message is sent.
C7_SingleShotInit ==
    /\ initRuns <= 1
    /\ initRuns = 1 => ~handlerRegistered
    /\ received >= 1 => initRuns = 1
    /\ \A t \in Targets : attempts[t] <= 1
    /\ rpcCount <= 1
    /\ Cardinality(Handshakes("ready") \cup Handshakes("error")) <= 1

C7_Witness ==
    /\ received = 2
    /\ pc \in {"import", "create"}
    /\ initRuns = 1

\* C8 as stated: a failure while handling target i (its directory change or
\* its construction) records one error entry for i and does not keep the
\* targets after i from being handled.
C8_AnyFailureIsolated ==
    Finished =>
        \A i \in 1..N :
            (engine[i] = "failed" \/ chdirFailedAt = i) =>
                /\ Cardinality(EntriesFor(errors, i)) = 1
                /\ \A j \in (i + 1)..N : Handled(j) = 1

\* C8 as amended: targets are handled in payload order, each at most once; a
\* failure of engine construction for target i (the import or createVitest
\* rejecting) records one error entry for i and the next target is handled;
\* when init processing decides its handshake every target was attempted
\* exactly once; a directory change that throws for target i is not
\* target-local: it records no entry for i and no later target is handled.
C8_ConstructionFailureIsolated ==
    /\ \A t \in Targets : Handled(t) <= 1 /\ (t > N => Handled(t) = 0)
    /\ \A t \in 2..N : Handled(t) = 1 => attempts[t - 1] = 1
    /\ \A i \in 1..N :
           engine[i] = "failed" =>
               /\ Cardinality(EntriesFor(errors, i)) = 1
               /\ i < N => Handled(i + 1) = 1
    /\ \A j, k \in DOMAIN errors :
           j < k => \E a, b \in 1..N :
                       a < b /\ errors[j][1] = data.meta[a] /\ errors[k][1] = data.meta[b]
    /\ Decided => \A t \in 1..N : attempts[t] = 1
    /\ \A i \in 1..N :
           chdirFailedAt = i =>
               /\ pc = "topError"
               /\ EntriesFor(errors, i) = {}
               /\ \A j \in (i + 1)..N : Handled(j) = 0

C8_Witness ==
    /\ Decided
    /\ N = 2
    /\ engine[1] = "failed"
    /\ attempts[2] = 1
    /\ Len(errors) >= 1

\* C9: when an error escapes target-local handling, exactly one `error`
\* message was sent, carrying '' and the stack trace, no `ready` message was
\* sent, and the step that handles the failure leaves the process running.
C9_TopLevelFailure ==
    /\ [](pc = "topError" =>
            /\ Cardinality(Handshakes("error")) = 1
            /\ Handshakes("ready") = {}
            /\ LET m == sent[CHOOSE i \in Handshakes("error") : TRUE]
               IN  /\ m.errors[1] = ""
                   /\ m.errors[2] \in {"loaderStack", "chdirStack", "rpcStack"})
    /\ [][(pc # "topError" /\ pc' = "topError") => ~crashed']_vars

C9_Witness ==
    /\ pc = "topError"
    /\ chdirFailedAt = 2
    /\ engine[1] = "live"
    /\ ~crashed

\* the rpc event each immediate callback is to produce
ExpectedEvent(callback) ==
    CASE callback = "onUserConsoleLog" -> "onConsoleLog"
      [] callback = "onTaskUpdate" -> "onTaskUpdate"
      [] callback = "onCollected" -> "onCollected"
      [] callback = "onWatcherStart" -> "onWatcherStart"
      [] callback = "onWatcherRerun" -> "onWatcherRerun"

InProgress == {t \in Targets : attempts[t] >= 1 /\ engine[t] \in {"none", "constructing"}}
Settled(t) == engine[t] \in {"live", "failed"}

\* C11: at most one engine construction is in progress; target i+1 is
\* started only when target i has succeeded or failed; when the construction
\* of target i starts, and while it lasts, the working directory is the
\* directory of i's identity; and the directory goes back to the saved one
\* only in a step after which every target has been attempted.
C11_SequentialConstruction ==
    /\ [](/\ Cardinality(InProgress) <= 1
          /\ \A t \in InProgress :
                 /\ pc \in {"import", "create"}
                 /\ t = idx
                 /\ procCwd = Dirname(data.meta[t])
                 /\ \A u \in 1..(t - 1) : Settled(u)
                 /\ \A u \in (t + 1)..N : attempts[u] = 0 /\ engine[u] = "none")
    /\ [][/\ \A t \in Targets :
                 attempts'[t] > attempts[t] =>
                     /\ InProgress \subseteq {t - 1}
                     /\ InProgress' = {t}
                     /\ procCwd' = Dirname(data'.meta[t])
                     /\ \A u \in 1..(t - 1) : Settled(u)'
          /\ (procCwd # cwd /\ procCwd' = cwd) =>
                 \A t \in 1..N : Settled(t)' /\ attempts'[t] = 1]_vars

C11_Witness ==
    /\ N = 2
    /\ InProgress = {2}
    /\ engine[1] = "failed"
    /\ procCwd = "/b"

\* C12: the channel is constructed at most once and only when every target
\* has been attempted; its lookup table holds exactly the identities of the
\* constructed targets, each mapped to its own engine; initRpc was called
\* once on the reporter of every constructed target and on no other; and a
\* `ready` message is sent only when all of them are wired.
C12_ChannelWiring ==
    /\ rpcCount <= 1
    /\ rpcCount = 0 =>
           /\ vitestById = <<>>
           /\ Handshakes("ready") = {}
           /\ \A t \in Targets : initRpcCalls[t] = 0 /\ rep[t].rpc = 0
    /\ rpcCount = 1 =>
           /\ \A t \in 1..N : Settled(t) /\ attempts[t] = 1
           /\ DOMAIN vitestById = {data.meta[t] : t \in LiveTargets}
           /\ \A t \in LiveTargets : vitestById[data.meta[t]] = t
           /\ \A t \in Targets :
                  /\ initRpcCalls[t] = (IF t \in LiveTargets THEN 1 ELSE 0)
                  /\ rep[t].rpc = (IF t \in LiveTargets THEN rpcCount ELSE 0)
           /\ Cardinality(Handshakes("ready")) = 1

C12_Witness ==
    /\ rpcCount = 1
    /\ N = 2
    /\ engine[1] = "failed"
    /\ engine[2] = "live"
    /\ data.meta = <<"/b/v", "/a/v">>
    /\ vitestById["/a/v"] = 2

\* C13: the `collecting` argument of an event is true exactly when the name
\* filter of the engine, at the moment the callback was called, was the
\* sentinel /$a/: for collected, watcherStart and watcherRerun that is the
\* moment the event is posted, for finished it is the moment onFinished was
\* called, whatever the filter is when the event is delivered.
C13_CollectingSnapshot ==
    \A i \in DOMAIN sent :
        (sent[i].type = "rpc" /\ sent[i].name \in
             {"onFinished", "onCollected", "onWatcherStart", "onWatcherRerun"}) =>
            sent[i].collecting = (callLog[sent[i].payload].pattern = "$a")

\* a finished event delivered after the filter changed, both ways
C13_Witness ==
    \E i, j \in DOMAIN sent :
        /\ sent[i].type = "rpc" /\ sent[i].name = "onFinished"
        /\ sent[j].type = "rpc" /\ sent[j].name = "onFinished"
        /\ sent[i].collecting /\ ~sent[j].collecting
        /\ callLog[sent[i].payload].t = callLog[sent[j].payload].t
        /\ pattern[callLog[sent[i].payload].t] = "a"

\* C14: every taskUpdate event carries the whole batch in its order, each
\* error object with its stacks replaced by the trace resolved through the
\* project of its pack's task, everything else as the engine built it (packs
\* without result or errors, errors that are no objects); and when no
\* resolution throws, the calls so far posted one event each.
C14_EnrichThenForward ==
    /\ \A k \in DOMAIN tuSent :
          LET e == tuSent[k]
          IN  /\ e.name = "onTaskUpdate" /\ e.id = WiredReporter.id
              /\ Len(e.payload) = Len(tuPacks0)
              /\ \A i \in DOMAIN tuPacks0 :
                    LET was == tuPacks0[i]
                        now == e.payload[i]
                    IN  /\ now.taskId = was.taskId
                        /\ now.result.defined = was.result.defined
                        /\ now.result.hasErrors = was.result.hasErrors
                        /\ Len(now.result.errors) = Len(was.result.errors)
                        /\ \A j \in DOMAIN was.result.errors :
                              LET err == was.result.errors[j]
                              IN  IF err.kind = "object"
                                  THEN now.result.errors[j] =
                                          [kind |-> "object", stack |-> err.stack,
                                           stacks |-> getProjectByTaskId(was.taskId)
                                                          \o ":" \o err.stack]
                                  ELSE now.result.errors[j] = err
    /\ (\A i \in DOMAIN tuPacks0 : \A j \in DOMAIN tuPacks0[i].result.errors :
            tuPacks0[i].result.errors[j].kind = "object"
                => getProjectByTaskId(tuPacks0[i].taskId) \notin tuBroken)
           => Len(tuSent) = tuCalls

\* C14 witness: two calls posted two events for a batch of a pack of t2 whose
\* error object held a stale trace and a pack without result
C14_Witness ==
    /\ tuCalls = 2 /\ Len(tuSent) = 2
    /\ Len(tuPacks0) = 2
    /\ tuPacks0[1].taskId = "t2"
    /\ tuPacks0[1].result.errors # <<>>
    /\ tuPacks0[1].result.errors[1].kind = "object"
    /\ tuPacks0[1].result.errors[1].stacks = "stale"
    /\ tuSent[1].payload[1].result.errors[1].stacks = "p2:s1"
    /\ ~tuPacks0[2].result.defined

\* the configuration objects the engine refers to, and whether each is
\* referred to once
Referenced == {RootConfig} \cup {sfProjects[i] : i \in DOMAIN sfProjects}
DistinctConfigs ==
    /\ \A i \in DOMAIN sfProjects : sfProjects[i] # RootConfig
    /\ \A i, j \in DOMAIN sfProjects : sfProjects[i] = sfProjects[j] => i = j
RECURSIVE Repeat(_, _)
Repeat(x, n) == IF n = 0 THEN <<>> ELSE Append(Repeat(x, n - 1), x)

\* C15: with the root and the projects' configurations distinct objects, the
\* calls of initVitest so far left each list's prior entries in place and in
\* order (a missing list counting as empty) and appended one occurrence of
\* the setup-file path per call at its end, already present or not; a
\* configuration the engine does not refer to is as it was.
C15_AppendOnly ==
    DistinctConfigs =>
        \A c \in ConfigIds :
            IF c \in Referenced /\ sfCalls > 0
            THEN /\ sfHeap[c].has
                 /\ sfHeap[c].setupFiles =
                        sfHeap0[c].setupFiles \o Repeat(setupFilePath, sfCalls)
            ELSE sfHeap[c] = sfHeap0[c]

\* C15 witness: two calls on an engine of two projects with their own
\* configurations, the root's list already naming the setup file and a
\* project's list missing
C15_Witness ==
    /\ DistinctConfigs
    /\ sfCalls = 2
    /\ Len(sfProjects) = 2
    /\ sfHeap0[RootConfig].setupFiles = <<"user.ts", setupFilePath>>
    /\ ~sfHeap0[sfProjects[1]].has
    /\ sfHeap[RootConfig].setupFiles =
           <<"user.ts", setupFilePath, setupFilePath, setupFilePath>>
    /\ sfHeap[sfProjects[1]].setupFiles = <<setupFilePath, setupFilePath>>

\* C20: one call of initVitest adds one occurrence of the setup-file path to
\* the list of every configuration object the engine refers to, however many
\* of the root and the projects refer to that object.
C20_SharedConfigOnce ==
    sfCalls = 1 =>
        \A c \in Referenced :
            Len(sfHeap[c].setupFiles) = Len(sfHeap0[c].setupFiles) + 1

\* positions in `sent` of the finished events of onFinished call n, and
\* whether the closure of call n is still queued
FinishedEvents(n) ==
    {i \in DOMAIN sent : sent[i].type = "rpc" /\ sent[i].name = "onFinished"
                            /\ sent[i].payload = n}
PendingTick(n) == \E k \in DOMAIN ticks : ticks[k].call = n
FinishedCalls == {n \in DOMAIN callLog : callLog[n].callback = "onFinished"}

\* C16: an onFinished call never has two finished events, nor an event while
\* its closure is still queued; its event carries the call's arguments and
\* the adapter's identity; a call on a wired adapter has its closure queued
\* or its event posted, and a queued one is eventually posted; the finished
\* events of one adapter are posted in the order of its calls.
C16_FinishedDelivered ==
    /\ [](/\ \A n \in FinishedCalls :
                /\ Cardinality(FinishedEvents(n)) <= 1
                /\ PendingTick(n) => FinishedEvents(n) = {}
                /\ callLog[n].wired =>
                      (PendingTick(n) \/ Cardinality(FinishedEvents(n)) = 1)
                /\ \A i \in FinishedEvents(n) : sent[i].id = data.meta[callLog[n].t]
          /\ \A i, j \in DOMAIN sent :
                (/\ i < j
                 /\ sent[i].type = "rpc" /\ sent[i].name = "onFinished"
                 /\ sent[j].type = "rpc" /\ sent[j].name = "onFinished"
                 /\ sent[i].id = sent[j].id) => sent[i].payload < sent[j].payload)
    /\ \A n \in 1..MaxCalls :
          (n \in FinishedCalls /\ callLog[n].wired /\ PendingTick(n))
              ~> (FinishedEvents(n) # {})

\* C16 witness: two onFinished calls of one wired adapter in one run, both
\* delivered
C16_Witness ==
    \E m, n \in FinishedCalls :
        /\ m < n
        /\ callLog[m].t = callLog[n].t
        /\ callLog[m].run = callLog[n].run
        /\ rep[callLog[m].t].rpc # 0
        /\ FinishedEvents(m) # {} /\ FinishedEvents(n) # {}

\* the handshake messages sent so far
AllHandshakes == Handshakes("ready") \cup Handshakes("error")

\* C17: an init message never has two handshake messages; when its
\* processing has ended, or the process has ended, exactly one was sent; and
\* an `error` handshake was sent only with every target failed or after an
\* exception reached the top-level handler.
C17_OneHandshake ==
    /\ Cardinality(AllHandshakes) <= 1
    /\ (initRuns > 0 /\ (Finished \/ crashed)) => Cardinality(AllHandshakes) = 1
    /\ Handshakes("error") # {} =>
          \/ pc = "topError"
          \/ pc = "totalFail" /\ \A t \in 1..N : engine[t] = "failed"

\* an element of an error list that is an [identity, stack] pair: a list of
\* two, whose first member is the identity of a target or ''
IsErrorEntry(e) == Len(e) = 2 /\ e[1] \in Identities \cup {""}

\* C18: in every `ready` and `error` message sent, each element of the
\* errors payload is an [identity, stack] pair, the message of the top-level
\* failure handler included.
C18_ErrorListShape ==
    \A i \in AllHandshakes :
        \A j \in DOMAIN sent[i].errors : IsErrorEntry(sent[i].errors[j])

\* C19: when init processing ended through the top-level failure handler
\* after the working directory was changed for at least one target, the
\* working directory is the original one once the `error` message is sent.
C19_CwdRestoredAfterTopLevel ==
    (pc = "topError" /\ Handshakes("error") # {} /\ \E t \in Targets : attempts[t] > 0)
        => procCwd = cwdAtInit

====
